---------------------------- MODULE Spec2Model ----------------------------
(***************************************************************************)
(* Model of the shared state container of the leave-management front end   *)
(* (Front-end/src/context/LeaveContext.tsx, LeaveProvider) together with   *)
(* the remote API client it calls (leaveService).                          *)
(*                                                                         *)
(* JavaScript runs one task at a time: every action below is one           *)
(* synchronous segment of an async function, from its start or from the    *)
(* resumption of an await up to the next await (or its return).  When the  *)
(* last promise of a Promise.all settles, the continuation of the awaiting *)
(* function runs in the micro-tasks of the same task, so it is part of the *)
(* same action.                                                            *)
(***************************************************************************)
EXTENDS Integers, Sequences, FiniteSets, Bags, TLC

(* ------------------------------ bounds -------------------------------- *)
MaxRequests == 1      \* leave requests held by the remote service
MaxStudents == 1      \* students held by the remote service
MaxUpdates == 2       \* updateLeaveStatus calls made by consumers
MaxUserFetches == 1   \* direct fetchLeaveRequests / fetchAllStudents calls
MaxLen == 4           \* length of the collections given to calculateStatusCounts
MaxLiveUpdates == 1   \* updateLeaveStatus calls made by consumers (SpecLive)
MaxServiceCalls == 2  \* leaveService operations called one after the other

(* ------------------------------ values -------------------------------- *)
\* Status values.  "cancelled" stands for any value outside the three the
\* front end knows.
KnownStatus == {"pending", "approved", "rejected"}
Status == KnownStatus \cup {"cancelled"}

NULL == "null"
StudentsError == "Failed to fetch students. Please try again later."
LeaveError == "Failed to fetch leave requests. Please try again later."
UpdateError == "Failed to update leave status. Please try again."

\* The raw failures the HTTP layer can raise.
ErrorDetail == {"Network Error"}

ZeroCounts == [pending |-> 0, approved |-> 0, rejected |-> 0, total |-> 0]

\* Owners of a fetch call: the initial effect, a consumer, or the k-th
\* updateLeaveStatus call (k >= 1).
InitOwner == 0
UserOwner == -1

NoResponse == [ok |-> FALSE, data |-> <<>>, err |-> "none"]

VARIABLES
    leaveRequests,   \* useState<LeaveRequest[]>
    loading,         \* useState<boolean>
    error,           \* useState<string | null>
    allStudents,     \* useState<Student[]>
    statusCounts,    \* useState<StatusCount>
    remoteLeave,     \* the leave requests stored by the backend
    remoteStudents,  \* the students stored by the backend
    initPc,          \* position of initialFetch: "idle", "joining", "done"
    updates,         \* updateLeaveStatus calls, in the order they were made
    fetches,         \* the fetch calls (a bag of call records)
    settled,         \* the fetch call that returned in the last step, if any
    userCalls,       \* number of fetch calls consumers have made
    observed,        \* the last updateLeaveStatus call that returned (SpecSeq)
    requests,        \* argument given to calculateStatusCounts (SpecCounts)
    counts,          \* its result (SpecCounts)
    service          \* the calls of leaveService operations (SpecService)

vars == <<leaveRequests, loading, error, allStudents, statusCounts,
          remoteLeave, remoteStudents, initPc, updates, fetches,
          settled, userCalls, observed, requests, counts, service>>

reactVars == <<leaveRequests, loading, error, allStudents, statusCounts>>

(* --------------------------- pure functions --------------------------- *)
\* Variant: a status that is neither pending nor approved counts as rejected.
countRequest_ElseRejected(c, request) ==
    IF request.status = "pending" THEN [c EXCEPT !.pending = @ + 1]
    ELSE IF request.status = "approved" THEN [c EXCEPT !.approved = @ + 1]
    ELSE [c EXCEPT !.rejected = @ + 1]

\* The body of the forEach callback: at most one bucket is incremented.
countRequest(c, request) ==
    IF request.status = "pending" THEN [c EXCEPT !.pending = @ + 1]
    ELSE IF request.status = "approved" THEN [c EXCEPT !.approved = @ + 1]
    ELSE IF request.status = "rejected" THEN [c EXCEPT !.rejected = @ + 1]
    ELSE c

RECURSIVE forEachRequest(_, _)
forEachRequest(reqs, c) ==
    IF reqs = <<>> THEN c
    ELSE forEachRequest(Tail(reqs), countRequest(c, Head(reqs)))

calculateStatusCounts(reqs) ==
    forEachRequest(reqs, [pending |-> 0, approved |-> 0, rejected |-> 0,
                          total |-> Len(reqs)])

(* --------------------------- remote service --------------------------- *)
\* Collections the backend can hold: requests are numbered 1..n.
RECURSIVE SeqsOf(_, _)
SeqsOf(S, n) ==
    IF n = 0 THEN {<<>>}
    ELSE LET shorter == SeqsOf(S, n - 1)
         IN  shorter \cup {Append(q, x) : q \in {r \in shorter : Len(r) = n - 1}, x \in S}

LeaveCollectionsUpTo(n) ==
    {[i \in 1..Len(q) |-> [id |-> i, status |-> q[i]]] : q \in SeqsOf(Status, n)}

LeaveCollections == LeaveCollectionsUpTo(MaxRequests)

\* The backend has at least one registered student.
StudentCollections == {[i \in 1..n |-> [student_id |-> i]] : n \in 1..MaxStudents}

\* LeaveStatusUpdate commands a consumer can send.
LeaveStatusUpdates == [id : 1..MaxRequests, status : KnownStatus]

\* POST /update_leave_status on the backend: the identified request takes the
\* target status.
RemoteUpdate(coll, update) ==
    [i \in 1..Len(coll) |->
        IF coll[i].id = update.id THEN [coll[i] EXCEPT !.status = update.status]
        ELSE coll[i]]

\* The outcomes of one HTTP call: a 2xx response carrying the body, or a
\* failure raised by the HTTP layer.
Responses(body) ==
    {[ok |-> TRUE, data |-> body, err |-> "none"]}
        \cup {[ok |-> FALSE, data |-> <<>>, err |-> e] : e \in ErrorDetail}

\* Variant: the catch block throws a new, generic error.
serviceResult_Wraps(resp) ==
    IF resp.ok THEN [returned |-> TRUE, value |-> resp.data, thrown |-> "none"]
    ELSE [returned |-> FALSE, value |-> <<>>, thrown |-> "Request failed"]

\* leaveService.*: returns response.data, or logs and rethrows the failure.
\* The result is what the awaiting caller sees.
serviceResult(resp) ==
    IF resp.ok THEN [returned |-> TRUE, value |-> resp.data, thrown |-> "none"]
    ELSE [returned |-> FALSE, value |-> <<>>, thrown |-> resp.err]

\* The operations of leaveService.
ServiceOps ==
    {"getAllLeaveRequests", "getLeaveHistory", "getLeaveHistoryByName",
     "submitLeaveRequest", "updateLeaveStatus", "registerStudent",
     "sendAIQuery", "getTotalStudents", "getAllStudents"}

\* Failures the HTTP layer can raise, and the outcomes of one HTTP call with
\* them.
HttpFailures == ErrorDetail \cup {"Request failed with status code 500"}

HttpOutcomes(body) ==
    Responses(body) \cup {[ok |-> FALSE, data |-> <<>>, err |-> e] : e \in HttpFailures}

\* Response bodies.
ServiceBodies == LeaveCollections \cup StudentCollections

NoResult == [returned |-> FALSE, value |-> <<>>, thrown |-> "none"]

\* The calls of leaveService operations: the operation last called and its
\* position ("awaiting" its HTTP call, "returned" or "thrown"), the outcome of
\* its HTTP call, what it gave its caller, and how many operations have been
\* called and how many HTTP calls issued so far.
NoService ==
    [op |-> "none", pc |-> "idle", resp |-> NoResponse, result |-> NoResult,
     calls |-> 0, http |-> 0]

(* ----------------------------- React state ---------------------------- *)
View ==
    [leaveRequests |-> leaveRequests, loading |-> loading, error |-> error,
     allStudents |-> allStudents, statusCounts |-> statusCounts]

NoView ==
    [leaveRequests |-> <<>>, loading |-> TRUE, error |-> NULL,
     allStudents |-> <<>>, statusCounts |-> ZeroCounts]

SetView(st) ==
    /\ leaveRequests' = st.leaveRequests
    /\ loading' = st.loading
    /\ error' = st.error
    /\ allStudents' = st.allStudents
    /\ statusCounts' = st.statusCounts

\* Variant: the error is cleared only once the students have arrived.
fetchAllStudentsStart_KeepsError(st) == st

\* fetchAllStudents: the segment before the await.
fetchAllStudentsStart(st) == [st EXCEPT !.error = NULL]

\* Variant: a successful student fetch also clears the error.
fetchAllStudentsThen_ClearsError(st, data) ==
    [st EXCEPT !.allStudents = data, !.error = NULL]

\* fetchAllStudents: the segment after the await, try branch and catch branch.
fetchAllStudentsThen(st, data) == [st EXCEPT !.allStudents = data]

\* Variant: the catch branch shows the message of the failure it caught.
fetchAllStudentsCatch_RawDetail(st) ==
    [st EXCEPT !.error = CHOOSE e \in ErrorDetail : TRUE, !.allStudents = <<>>]

\* Variant: the catch branch keeps the stale collection.
fetchAllStudentsCatch_KeepsStale(st) == [st EXCEPT !.error = StudentsError]

fetchAllStudentsCatch(st) ==
    [st EXCEPT !.error = StudentsError, !.allStudents = <<>>]

\* Variant: the error of an earlier call is left in place.
fetchLeaveRequestsStart_KeepsError(st) == st

\* fetchLeaveRequests: the segment before the await.
fetchLeaveRequestsStart(st) == [st EXCEPT !.error = NULL]

\* Variant: the try branch stores the requests without recounting them.
fetchLeaveRequestsThen_StaleCounts(st, data) == [st EXCEPT !.leaveRequests = data]

\* Variant: the fetched requests are appended to the collection held.
fetchLeaveRequestsThen_Appends(st, data) ==
    [st EXCEPT !.leaveRequests = @ \o data,
               !.statusCounts = calculateStatusCounts(st.leaveRequests \o data)]

\* fetchLeaveRequests: the segment after the await, try branch and catch branch.
fetchLeaveRequestsThen(st, data) ==
    [st EXCEPT !.leaveRequests = data,
               !.statusCounts = calculateStatusCounts(data)]

\* Variant: the catch branch resets every collection.
fetchLeaveRequestsCatch_ResetsAll(st) ==
    [st EXCEPT !.error = LeaveError, !.leaveRequests = <<>>,
               !.statusCounts = ZeroCounts, !.allStudents = <<>>]

\* Variant: the catch branch does not reset the counts.
fetchLeaveRequestsCatch_KeepsCounts(st) ==
    [st EXCEPT !.error = LeaveError, !.leaveRequests = <<>>]

fetchLeaveRequestsCatch(st) ==
    [st EXCEPT !.error = LeaveError, !.leaveRequests = <<>>,
               !.statusCounts = ZeroCounts]

\* Variant: the catch branch rethrows, so a failed fetch rejects its promise.
fetchPromise_Rethrows(result) == IF result.returned THEN "fulfilled" ELSE "rejected"

\* The state of the promise an async fetch function returns once the segment
\* after its await has run: both functions catch every failure, so the
\* promise is fulfilled whatever the service did.
fetchPromise(result) == "fulfilled"

\* Variant: a failure that arrives when the slice is filled is taken to be a
\* stale one and dropped.
fetchSettle_DropsLateFailure(st, kind, result) ==
    IF kind = "leave"
    THEN IF result.returned THEN fetchLeaveRequestsThen(st, result.value)
         ELSE IF st.leaveRequests # <<>> THEN st
         ELSE fetchLeaveRequestsCatch(st)
    ELSE IF result.returned THEN fetchAllStudentsThen(st, result.value)
         ELSE IF st.allStudents # <<>> THEN st
         ELSE fetchAllStudentsCatch(st)

\* The segment of a fetch function after its await.
fetchSettle(st, kind, result) ==
    IF kind = "leave"
    THEN IF result.returned THEN fetchLeaveRequestsThen(st, result.value)
                            ELSE fetchLeaveRequestsCatch(st)
    ELSE IF result.returned THEN fetchAllStudentsThen(st, result.value)
                            ELSE fetchAllStudentsCatch(st)

\* Variant: Promise.race, settled as soon as one promise is.
PromiseAll_Race(promises) ==
    IF "rejected" \in promises THEN "rejected"
    ELSE IF "fulfilled" \in promises THEN "fulfilled"
    ELSE "pending"

\* Promise.all over the fetch promises (given by their states): rejected as
\* soon as one is rejected, fulfilled once all are fulfilled.
PromiseAll(promises) ==
    IF "rejected" \in promises THEN "rejected"
    ELSE IF promises \subseteq {"fulfilled"} THEN "fulfilled"
    ELSE "pending"

\* updateLeaveStatus: the segment before the await of the update request.
updateLeaveStatusStart(st) == [st EXCEPT !.loading = TRUE, !.error = NULL]

\* Variant: the catch branch also empties the leave requests.
updateLeaveStatusCatch_Clears(st) ==
    [st EXCEPT !.error = UpdateError, !.leaveRequests = <<>>,
               !.statusCounts = ZeroCounts]

\* updateLeaveStatus: catch and finally.
updateLeaveStatusCatch(st) == [st EXCEPT !.error = UpdateError]

\* Variant: loading is cleared at the end of the try block only.
updateLeaveStatusFinally_OnSuccessOnly(st) ==
    IF st.error = UpdateError THEN st ELSE [st EXCEPT !.loading = FALSE]

updateLeaveStatusFinally(st) == [st EXCEPT !.loading = FALSE]

\* initialFetch: the segment before the await, catch (logs only) and finally.
initialFetchStart(st) == [st EXCEPT !.loading = TRUE, !.error = NULL]

initialFetchCatch(st) == st

initialFetchFinally(st) == [st EXCEPT !.loading = FALSE]

(* ------------------------------- calls -------------------------------- *)
\* A call of a fetch function: "sent" while it awaits its HTTP call, "done"
\* once the function has returned; resp is then the outcome of the HTTP call
\* and promise the state of the promise the function returned.  The record of
\* a returned call is kept until the Promise.all that awaits it is settled.
NewFetch(kind, owner) ==
    [kind |-> kind, owner |-> owner, pc |-> "sent", resp |-> NoResponse,
     promise |-> "pending"]

NoFetch ==
    [kind |-> "none", owner |-> -2, pc |-> "none", resp |-> NoResponse,
     promise |-> "pending"]

\* A call of updateLeaveStatus: "sent" while it awaits its HTTP call,
\* "joining" while it awaits Promise.all, then "done".
NewUpdate(update) == [update |-> update, pc |-> "sent"]

NoUpdate == [id |-> 0, status |-> "none"]

FetchesOf(fs, owner) == {f \in BagToSet(fs) : f.owner = owner}

\* How many fetch calls of a kind an owner has in the bag.
Issued(fs, owner, kind) ==
    LET RECURSIVE Sum(_)
        Sum(T) == IF T = {} THEN 0
                  ELSE LET f == CHOOSE g \in T : TRUE
                       IN  CopiesIn(f, fs) + Sum(T \ {f})
    IN  Sum({f \in FetchesOf(fs, owner) : f.kind = kind})

JoinOf(fs, owner) == PromiseAll({f.promise : f \in FetchesOf(fs, owner)})

Replace(fs, f, g) == (fs (-) SetToBag({f})) (+) SetToBag({g})

\* The records of the returned calls of an owner are dropped.
Forget(fs, owner) ==
    LET gone == {f \in FetchesOf(fs, owner) : f.pc = "done"}
        RECURSIVE Drop(_, _)
        Drop(bag, T) == IF T = {} THEN bag
                        ELSE LET f == CHOOSE g \in T : TRUE
                             IN  Drop(bag (-) [x \in {f} |-> CopiesIn(f, bag)], T \ {f})
    IN  Drop(fs, gone)

\* Variant: the requests are fetched twice and the students not at all.
PairOfFetches_LeaveTwice(owner) ==
    SetToBag({NewFetch("leave", owner)}) (+) SetToBag({NewFetch("leave", owner)})

\* The two fetch calls of Promise.all([fetchLeaveRequests(), fetchAllStudents()]).
PairOfFetches(owner) ==
    SetToBag({NewFetch("leave", owner)}) (+) SetToBag({NewFetch("students", owner)})

\* No call is in flight.
Idle ==
    /\ initPc # "joining"
    /\ \A k \in 1..Len(updates) : updates[k].pc = "done"
    /\ \A f \in BagToSet(fetches) : f.pc = "done"

(* ------------------------------ actions ------------------------------- *)
\* useEffect on mount: initialFetch up to its await of Promise.all; both fetch
\* functions run up to their own await inside it.
InitialFetch ==
    /\ initPc = "idle"
    /\ SetView(fetchAllStudentsStart(fetchLeaveRequestsStart(initialFetchStart(View))))
    /\ fetches' = fetches (+) PairOfFetches(InitOwner)
    /\ initPc' = "joining"
    /\ settled' = NoFetch
    /\ UNCHANGED <<remoteLeave, remoteStudents, updates, userCalls, requests, counts, service>>

\* A consumer calls fetchLeaveRequests.
FetchLeaveRequests ==
    /\ userCalls < MaxUserFetches
    /\ userCalls' = userCalls + 1
    /\ SetView(fetchLeaveRequestsStart(View))
    /\ fetches' = fetches (+) SetToBag({NewFetch("leave", UserOwner)})
    /\ settled' = NoFetch
    /\ UNCHANGED <<remoteLeave, remoteStudents, initPc, updates, requests, counts, service>>

\* A consumer calls fetchAllStudents.
FetchAllStudents ==
    /\ userCalls < MaxUserFetches
    /\ userCalls' = userCalls + 1
    /\ SetView(fetchAllStudentsStart(View))
    /\ fetches' = fetches (+) SetToBag({NewFetch("students", UserOwner)})
    /\ settled' = NoFetch
    /\ UNCHANGED <<remoteLeave, remoteStudents, initPc, updates, requests, counts, service>>

\* A consumer calls updateLeaveStatus(update): up to the await of the request.
UpdateLeaveStatus ==
    /\ Len(updates) < MaxUpdates
    /\ \E update \in LeaveStatusUpdates :
          updates' = Append(updates, NewUpdate(update))
    /\ SetView(updateLeaveStatusStart(View))
    /\ settled' = NoFetch
    /\ UNCHANGED <<remoteLeave, remoteStudents, initPc, fetches, userCalls,
                   requests, counts, service>>

\* The HTTP call of an update completes (the backend has applied the update,
\* or the call fails) and updateLeaveStatus resumes after its await: on
\* success both fetch functions run up to their await; on failure catch and
\* finally run.
UpdateResume ==
    \E k \in 1..Len(updates) : \E resp \in Responses(<<>>) :
       /\ updates[k].pc = "sent"
       /\ IF serviceResult(resp).returned
          THEN /\ remoteLeave' = RemoteUpdate(remoteLeave, updates[k].update)
               /\ SetView(fetchAllStudentsStart(fetchLeaveRequestsStart(View)))
               /\ fetches' = fetches (+) PairOfFetches(k)
               /\ updates' = [updates EXCEPT ![k].pc = "joining"]
          ELSE /\ SetView(updateLeaveStatusFinally(updateLeaveStatusCatch(View)))
               /\ updates' = [updates EXCEPT ![k] = [update |-> NoUpdate, pc |-> "done"]]
               /\ UNCHANGED <<fetches, remoteLeave>>
       /\ settled' = NoFetch
       /\ UNCHANGED <<remoteStudents, initPc, userCalls, requests, counts, service>>

\* The HTTP call of a fetch completes (the backend answers with its current
\* collection, or the call fails) and the fetch function resumes after its
\* await and returns.  When that settles the Promise.all its caller awaits,
\* the caller runs to its end as well.
FetchResume ==
    \E f \in BagToSet(fetches) :
    \E resp \in Responses(IF f.kind = "leave" THEN remoteLeave ELSE remoteStudents) :
       /\ f.pc = "sent"
       /\ LET result == serviceResult(resp)
              st1 == fetchSettle(View, f.kind, result)
              g == [f EXCEPT !.pc = "done", !.resp = resp,
                             !.promise = fetchPromise(result)]
              fs == Replace(fetches, f, g)
              join == IF f.owner = UserOwner THEN "pending" ELSE JoinOf(fs, f.owner)
          IN  /\ settled' = g
              /\ IF f.owner = InitOwner /\ initPc = "joining" /\ join # "pending"
                 THEN /\ SetView(initialFetchFinally(
                            IF join = "rejected" THEN initialFetchCatch(st1) ELSE st1))
                      /\ initPc' = "done"
                      /\ fetches' = Forget(fs, f.owner)
                      /\ UNCHANGED updates
                 ELSE IF f.owner >= 1 /\ updates[f.owner].pc = "joining" /\ join # "pending"
                 THEN /\ SetView(updateLeaveStatusFinally(
                            IF join = "rejected" THEN updateLeaveStatusCatch(st1) ELSE st1))
                      /\ updates' = [updates EXCEPT
                                        ![f.owner] = [update |-> NoUpdate, pc |-> "done"]]
                      /\ fetches' = Forget(fs, f.owner)
                      /\ UNCHANGED initPc
                 ELSE /\ SetView(st1)
                      /\ fetches' = IF f.owner = UserOwner
                                       \/ (f.owner = InitOwner /\ initPc = "done")
                                       \/ (f.owner >= 1 /\ updates[f.owner].pc = "done")
                                    THEN Forget(fs, f.owner) ELSE fs
                      /\ UNCHANGED <<initPc, updates>>
       /\ UNCHANGED <<remoteLeave, remoteStudents, userCalls, requests, counts, service>>

\* calculateStatusCounts applied to a collection.
Calculate ==
    /\ counts' = calculateStatusCounts(requests)
    /\ UNCHANGED <<reactVars, remoteLeave, remoteStudents, initPc, updates,
                   fetches, settled, userCalls, requests, service>>

\* A leaveService operation is called: it issues its HTTP call (apiClient.get
\* or apiClient.post) and awaits it.
ServiceCall ==
    /\ service.pc # "awaiting"
    /\ service.calls < MaxServiceCalls
    /\ \E op \in ServiceOps :
          service' = [op |-> op, pc |-> "awaiting", resp |-> NoResponse,
                      result |-> NoResult, calls |-> service.calls + 1,
                      http |-> service.http + 1]
    /\ UNCHANGED <<reactVars, remoteLeave, remoteStudents, initPc, updates,
                   fetches, settled, userCalls, requests, counts>>

\* The HTTP call settles and the operation returns response.data or, in its
\* catch block, logs and throws.
ServiceSettle ==
    /\ service.pc = "awaiting"
    /\ \E body \in ServiceBodies : \E resp \in HttpOutcomes(body) :
          LET result == serviceResult(resp)
          IN  service' = [service EXCEPT
                             !.pc = IF result.returned THEN "returned" ELSE "thrown",
                             !.resp = resp, !.result = result]
    /\ UNCHANGED <<reactVars, remoteLeave, remoteStudents, initPc, updates,
                   fetches, settled, userCalls, requests, counts>>

(* ----------------------------- observation ---------------------------- *)
\* The updateLeaveStatus call k returns in this step.
Returns(k) == k <= Len(updates) /\ updates[k].pc # "done" /\ updates'[k].pc = "done"

\* ... and every remote call it made succeeded: the update request and both
\* fetches of the resynchronisation.
ReturnsOk(k) ==
    /\ Returns(k)
    /\ updates[k].pc = "joining"
    /\ settled'.owner = k /\ settled'.resp.ok
    /\ \A f \in FetchesOf(fetches, k) : f.pc = "done" => f.resp.ok

NoObserved ==
    [update |-> NoUpdate, ok |-> FALSE, twice |-> FALSE, view |-> NoView,
     before |-> NULL, rivals |-> {}, emptied |-> FALSE]

\* Records the call that returns: its update, whether every remote call of it
\* succeeded, the state it left behind, and whether it repeated the update of
\* the successful call before it.
Observe ==
    observed' =
        IF \E k \in 1..Len(updates) : Returns(k)
        THEN LET k == CHOOSE j \in 1..Len(updates) : Returns(j)
             IN  [update |-> updates[k].update,
                  ok |-> ReturnsOk(k),
                  twice |-> ReturnsOk(k) /\ observed.ok
                              /\ observed.update = updates[k].update,
                  view |-> View',
                  before |-> observed.before,
                  rivals |-> observed.rivals,
                  emptied |-> observed.emptied]
        ELSE observed

\* Records, of a call that starts while none is in flight, the error it found.
ObserveStart == observed' = [observed EXCEPT !.before = IF Idle THEN error ELSE @]

\* The callers whose fetch of a kind is outstanding.
SentOwners(fs, kind) ==
    {f.owner : f \in {g \in BagToSet(fs) : g.pc = "sent" /\ g.kind = kind}}

\* Records, when a fetchLeaveRequests returns: the callers whose
\* fetchLeaveRequests is still outstanding, if this one has filled the slice;
\* and whether this one failed after a call it was outstanding together with
\* had filled the slice.
ObserveRace ==
    observed' =
        IF settled'.pc = "done" /\ settled'.kind = "leave"
        THEN [observed EXCEPT
                 !.rivals = IF settled'.resp.ok /\ settled'.resp.data # <<>>
                            THEN SentOwners(fetches', "leave") ELSE {},
                 !.emptied = settled'.owner \in observed.rivals /\ ~settled'.resp.ok]
        ELSE observed

(* --------------------------- specifications --------------------------- *)
NoCounts == [pending |-> -1, approved |-> -1, rejected |-> -1, total |-> -1]

\* The state after LeaveProvider's first render: the useState defaults.
Mounted ==
    /\ leaveRequests = <<>>
    /\ loading = TRUE
    /\ error = NULL
    /\ allStudents = <<>>
    /\ statusCounts = ZeroCounts
    /\ initPc = "idle"
    /\ updates = <<>>
    /\ fetches = EmptyBag
    /\ settled = NoFetch
    /\ userCalls = 0
    /\ observed = NoObserved
    /\ service = NoService

Init ==
    /\ Mounted
    /\ remoteLeave \in LeaveCollections
    /\ remoteStudents \in StudentCollections
    /\ requests = <<>>
    /\ counts = NoCounts

Next ==
    \/ InitialFetch /\ UNCHANGED observed
    \/ FetchLeaveRequests /\ UNCHANGED observed
    \/ FetchAllStudents /\ UNCHANGED observed
    \/ UpdateLeaveStatus /\ UNCHANGED observed
    \/ UpdateResume /\ UNCHANGED observed
    \/ FetchResume /\ UNCHANGED observed

\* Any interleaving of the calls.
Spec == Init /\ [][Next]_vars

\* Calls made one after the other: a call starts only when none is in flight.
NextSeq ==
    \/ Idle /\ InitialFetch /\ Observe
    \/ Idle /\ FetchLeaveRequests /\ Observe
    \/ Idle /\ FetchAllStudents /\ Observe
    \/ Idle /\ UpdateLeaveStatus /\ Observe
    \/ UpdateResume /\ Observe
    \/ FetchResume /\ Observe

SpecSeq == Init /\ [][NextSeq]_vars

\* Calls made one after the other, each observed at its start.
NextRetry ==
    \/ Idle /\ InitialFetch /\ ObserveStart
    \/ Idle /\ FetchLeaveRequests /\ ObserveStart
    \/ Idle /\ FetchAllStudents /\ ObserveStart
    \/ Idle /\ UpdateLeaveStatus /\ ObserveStart
    \/ UpdateResume /\ ObserveStart
    \/ FetchResume /\ ObserveStart

SpecRetry == Init /\ [][NextRetry]_vars

\* Any interleaving of the calls, the overlapping fetchLeaveRequests calls
\* observed.
NextOverlap ==
    \/ InitialFetch /\ ObserveRace
    \/ FetchLeaveRequests /\ ObserveRace
    \/ FetchAllStudents /\ ObserveRace
    \/ UpdateLeaveStatus /\ ObserveRace
    \/ UpdateResume /\ ObserveRace
    \/ FetchResume /\ ObserveRace

SpecOverlap == Init /\ [][NextOverlap]_vars

\* Any interleaving of the calls, every remote call settling in the end: the
\* mount effect runs, and a function awaiting a remote call that has settled
\* resumes.
Fairness ==
    /\ WF_vars(InitialFetch /\ UNCHANGED observed)
    /\ WF_vars(UpdateResume /\ UNCHANGED observed)
    /\ WF_vars(FetchResume /\ UNCHANGED observed)

NextLive ==
    \/ InitialFetch /\ UNCHANGED observed
    \/ FetchLeaveRequests /\ UNCHANGED observed
    \/ FetchAllStudents /\ UNCHANGED observed
    \/ Len(updates) < MaxLiveUpdates /\ UpdateLeaveStatus /\ UNCHANGED observed
    \/ UpdateResume /\ UNCHANGED observed
    \/ FetchResume /\ UNCHANGED observed

SpecLive == Init /\ [][NextLive]_vars /\ Fairness

\* The leaveService operations on their own, over every outcome of the HTTP
\* call.
NextService ==
    \/ ServiceCall /\ UNCHANGED observed
    \/ ServiceSettle /\ UNCHANGED observed

InitService ==
    /\ Mounted
    /\ remoteLeave = <<>>
    /\ remoteStudents = <<>>
    /\ requests = <<>>
    /\ counts = NoCounts

SpecService == InitService /\ [][NextService]_vars

\* calculateStatusCounts on its own, over every collection up to MaxLen.
InitCounts ==
    /\ Mounted
    /\ remoteLeave = <<>>
    /\ remoteStudents = <<>>
    /\ requests \in LeaveCollectionsUpTo(MaxLen)
    /\ counts = NoCounts

NextCounts == Calculate /\ UNCHANGED observed

SpecCounts == InitCounts /\ [][NextCounts]_vars

(* =============================== claims =============================== *)
KnownCount(reqs, s) == Cardinality({i \in 1..Len(reqs) : reqs[i].status = s})

ExampleRequests ==
    <<[id |-> 1, status |-> "pending"], [id |-> 2, status |-> "approved"],
      [id |-> 3, status |-> "approved"], [id |-> 4, status |-> "rejected"]>>

\* C1: for every collection, calculateStatusCounts returns total = the length
\* of the collection and pending, approved, rejected = the number of requests
\* with exactly that status; so the three buckets sum to at most total, with
\* equality exactly when every status is a known one; and the collection
\* [pending, approved, approved, rejected] gives {1, 2, 1, 4}.
C1_StatusCounts ==
    counts # NoCounts =>
       /\ counts.total = Len(requests)
       /\ counts.pending = KnownCount(requests, "pending")
       /\ counts.approved = KnownCount(requests, "approved")
       /\ counts.rejected = KnownCount(requests, "rejected")
       /\ counts.pending + counts.approved + counts.rejected <= counts.total
       /\ (counts.pending + counts.approved + counts.rejected = counts.total
             <=> \A i \in 1..Len(requests) : requests[i].status \in KnownStatus)
       /\ (requests = ExampleRequests =>
             counts = [pending |-> 1, approved |-> 2, rejected |-> 1, total |-> 4])

\* A collection with a known and an unrecognised status has been counted.
C1_Witness ==
    /\ counts # NoCounts
    /\ \E i \in 1..Len(requests) : requests[i].status = "cancelled"
    /\ \E i \in 1..Len(requests) : requests[i].status = "rejected"
    /\ counts.total > counts.pending + counts.approved + counts.rejected

\* The fetch call of the given kind has just returned after its remote call
\* failed (succeeded).
JustFailed(kind) == settled.pc = "done" /\ settled.kind = kind /\ ~settled.resp.ok

JustSucceeded(kind) == settled.pc = "done" /\ settled.kind = kind /\ settled.resp.ok

InFlight == \E f \in BagToSet(fetches) : f.pc = "sent"

\* C2: in the state right after a fetchLeaveRequests whose remote call failed
\* has returned, leaveRequests is empty, statusCounts is all zero and error
\* is the leave-request failure message, whatever else is in flight.
C2_LeaveFetchFailure ==
    JustFailed("leave") =>
       /\ leaveRequests = <<>>
       /\ statusCounts = ZeroCounts
       /\ error # NULL
       /\ error = LeaveError

\* A leave fetch has just failed while other calls are still in flight.
C2_Witness ==
    /\ JustFailed("leave")
    /\ InFlight
    /\ \E k \in 1..Len(updates) : updates[k].pc = "sent"

\* C3: right after a fetchAllStudents whose remote call failed has returned,
\* allStudents is empty and error is the students failure message; right
\* after one whose remote call succeeded, allStudents is the collection the
\* remote service returned.
C3_StudentFetch ==
    /\ JustFailed("students") => allStudents = <<>> /\ error = StudentsError
    /\ JustSucceeded("students") => allStudents = settled.resp.data

\* A student fetch has just failed while another call is in flight.
C3_Witness == JustFailed("students") /\ InFlight

\* The update request of call k fails in this step.
UpdateFails(k) == k <= Len(updates) /\ updates[k].pc = "sent" /\ updates'[k].pc = "done"

\* The update request of call k succeeds in this step.
UpdateSucceeds(k) ==
    k <= Len(updates) /\ updates[k].pc = "sent" /\ updates'[k].pc = "joining"

\* updateLeaveStatus is called in this step.
UpdateCalled == Len(updates') > Len(updates)

\* C4: an updateLeaveStatus whose update request fails sets error to the
\* update failure message and loading to false, issues no fetch, and neither
\* its call nor its failure changes leaveRequests, allStudents or statusCounts.
C4_UpdateFailure ==
    [][/\ UpdateCalled =>
            /\ fetches' = fetches
            /\ leaveRequests' = leaveRequests
            /\ allStudents' = allStudents
            /\ statusCounts' = statusCounts
       /\ \A k \in 1..MaxUpdates : UpdateFails(k) =>
            /\ error' = UpdateError
            /\ loading' = FALSE
            /\ fetches' = fetches
            /\ leaveRequests' = leaveRequests
            /\ allStudents' = allStudents
            /\ statusCounts' = statusCounts]_vars

\* An update has failed and the collections fetched before are still there.
C4_Witness ==
    /\ error = UpdateError
    /\ loading = FALSE
    /\ leaveRequests # <<>>
    /\ allStudents # <<>>
    /\ \E k \in 1..Len(updates) : updates[k].pc = "done"

\* C5: a call whose update request succeeds issues, in the step in which the
\* request succeeds, exactly one fetchLeaveRequests and one fetchAllStudents,
\* both then in flight; no other step issues a fetch for the call, and none is
\* issued while the update request is outstanding.
C5_ResyncFetches ==
    [][\A k \in 1..MaxUpdates : \A kind \in {"leave", "students"} :
          /\ UpdateSucceeds(k) =>
                /\ Issued(fetches, k, kind) = 0
                /\ Issued(fetches', k, kind) = 1
                /\ \A f \in FetchesOf(fetches', k) : f.pc = "sent"
          /\ Issued(fetches', k, kind) > Issued(fetches, k, kind) => UpdateSucceeds(k)
          /\ (k <= Len(updates') /\ updates'[k].pc = "sent") =>
                Issued(fetches', k, kind) = 0]_vars

\* Both fetches of a call are in flight after its update request succeeded.
C5_Witness ==
    \E k \in 1..Len(updates) :
       /\ updates[k].pc = "joining"
       /\ Issued(fetches, k, "leave") = 1
       /\ Issued(fetches, k, "students") = 1
       /\ \A f \in FetchesOf(fetches, k) : f.pc = "sent"

\* C6: while initialFetch awaits its two fetches loading is true; it has
\* finished only when neither of the two is outstanding, and loading is false
\* right after it finished, whichever fetch failed or came last.
C6_InitialLoading ==
    /\ initPc = "joining" => loading = TRUE
    /\ initPc = "done" => \A f \in FetchesOf(fetches, InitOwner) : f.pc # "sent"
    /\ (initPc = "done" /\ settled.pc = "done" /\ settled.owner = InitOwner) =>
          loading = FALSE

\* One initial fetch has failed, the other is outstanding, loading is true.
C6_Witness ==
    /\ initPc = "joining"
    /\ loading = TRUE
    /\ \E f \in FetchesOf(fetches, InitOwner) : f.pc = "done" /\ ~f.resp.ok
    /\ \E f \in FetchesOf(fetches, InitOwner) : f.pc = "sent"

\* C7: whenever an updateLeaveStatus call is in progress, loading is true.
C7_LoadingWhileUpdating ==
    \A k \in 1..Len(updates) : updates[k].pc \in {"sent", "joining"} => loading = TRUE

\* The awaited pair of an owner is settled in this step.
PairSettles(owner) ==
    IF owner = InitOwner THEN initPc = "joining" /\ initPc' = "done"
    ELSE owner <= Len(updates) /\ updates[owner].pc = "joining"
            /\ updates'[owner].pc = "done"

\* C8: when the two fetches of a pair started together are both settled, the
\* leave fetch having failed and the student fetch having succeeded, error is
\* the leave-request failure message, allStudents is the collection returned,
\* leaveRequests is empty and the counts are zero, in either order.
C8_FailedLeaveWithStudents ==
    [][\A owner \in 0..MaxUpdates : \A f \in FetchesOf(fetches, owner) :
          (/\ PairSettles(owner)
           /\ f.pc = "done" /\ settled'.owner = owner
           /\ \E l \in {f, settled'} : \E t \in {f, settled'} :
                 /\ l.kind = "leave" /\ ~l.resp.ok
                 /\ t.kind = "students" /\ t.resp.ok)
          => /\ error' = LeaveError
             /\ \E t \in {f, settled'} : t.kind = "students" /\ allStudents' = t.resp.data
             /\ leaveRequests' = <<>>
             /\ statusCounts' = ZeroCounts]_vars

\* The initial pair is settled: the leave fetch failed first, the student
\* fetch succeeded last.
C8_Witness ==
    /\ initPc = "done"
    /\ JustSucceeded("students") /\ settled.owner = InitOwner
    /\ error = LeaveError
    /\ leaveRequests = <<>>
    /\ allStudents # <<>>

C10_IdempotentResync ==
    [][\A k \in 1..MaxUpdates :
          (ReturnsOk(k) /\ observed.ok /\ observed.update = updates[k].update)
             => View' = observed.view]_vars

\* The same update has been applied twice in a row, with leave requests held.
C10_Witness ==
    /\ observed.twice
    /\ observed.view.leaveRequests # <<>>
    /\ View = observed.view

\* C11: in every reachable state, whatever calls have run or are in flight and
\* whatever succeeded or failed, statusCounts is the status count of the
\* current leaveRequests, and statusCounts.total is its length.
C11_CountsMatchRequests ==
    /\ statusCounts = calculateStatusCounts(leaveRequests)
    /\ statusCounts.total = Len(leaveRequests)

\* A fetched collection is held and counted while other calls are in flight
\* after an earlier failure.
C11_Witness ==
    /\ leaveRequests # <<>>
    /\ statusCounts.total = 1
    /\ error # NULL
    /\ InFlight

\* The fetch a consumer started returns in this step, its remote call having
\* succeeded.
UserFetchReturnsOk(kind) ==
    /\ settled'.pc = "done" /\ settled'.owner = UserOwner
    /\ settled'.kind = kind /\ settled'.resp.ok

\* C12: a call started in a state that a failure left behind (error set, no
\* call in flight) and whose remote calls all succeed recovers: a
\* fetchLeaveRequests ends with error = null, leaveRequests the remote
\* collection and statusCounts counted from it; a fetchAllStudents with
\* error = null and allStudents the remote collection; an updateLeaveStatus
\* with both slices the remote data, error = null and loading = false.
C12_RetryRecovers ==
    [][/\ (observed.before # NULL /\ UserFetchReturnsOk("leave")) =>
             /\ error' = NULL
             /\ leaveRequests' = remoteLeave'
             /\ statusCounts' = calculateStatusCounts(remoteLeave')
       /\ (observed.before # NULL /\ UserFetchReturnsOk("students")) =>
             /\ error' = NULL
             /\ allStudents' = remoteStudents'
       /\ \A k \in 1..MaxUpdates : (observed.before # NULL /\ ReturnsOk(k)) =>
             /\ leaveRequests' = remoteLeave'
             /\ statusCounts' = calculateStatusCounts(remoteLeave')
             /\ allStudents' = remoteStudents'
             /\ error' = NULL
             /\ loading' = FALSE]_vars

\* An update was retried after a failed update, found the update failure
\* message and has ended with both slices fetched and no error.
C12_Witness ==
    /\ observed.before = UpdateError
    /\ Len(updates) = 2 /\ Idle
    /\ error = NULL /\ loading = FALSE
    /\ leaveRequests = remoteLeave /\ leaveRequests # <<>>
    /\ allStudents = remoteStudents

\* A leave fetch was retried after the initial leave fetch failed and has
\* ended with the remote collection and no error.
C12_FetchRetried ==
    /\ observed.before = LeaveError
    /\ JustSucceeded("leave") /\ settled.owner = UserOwner
    /\ error = NULL
    /\ leaveRequests = remoteLeave /\ leaveRequests # <<>>

\* C13: every leaveService operation issues one HTTP call per invocation and
\* none when that call settles (no retry); when the call fails the operation
\* throws the very failure the HTTP layer raised and returns nothing; when it
\* succeeds the operation returns the response body as it is.
C13_ServiceOperation ==
    /\ service.http = service.calls
    /\ service.pc = "thrown" =>
          /\ ~service.resp.ok
          /\ ~service.result.returned
          /\ service.result.thrown = service.resp.err
    /\ service.pc = "returned" =>
          /\ service.resp.ok
          /\ service.result.returned
          /\ service.result.value = service.resp.data
          /\ service.result.thrown = "none"
    /\ service.pc \in {"returned", "thrown"} =>
          (service.pc = "thrown" <=> ~service.resp.ok)

\* A second operation has failed with an HTTP status failure and thrown it.
C13_Witness ==
    /\ service.calls = 2 /\ service.http = 2
    /\ service.pc = "thrown"
    /\ service.result.thrown = "Request failed with status code 500"

\* The state the initial fetch would end in had its two fetches completed in
\* the other order: first the one that completes in this step, then the one
\* that has completed already (first being the record of the latter).
OtherOrder(first) ==
    initialFetchFinally(
        fetchSettle(fetchSettle(View, settled'.kind, serviceResult(settled'.resp)),
                    first.kind, serviceResult(first.resp)))

\* C14: when the second of the two initial fetches completes, the state is
\* the one the other order of completion ends in (same leaveRequests,
\* statusCounts, allStudents, loading and error), whatever succeeded or
\* failed, both failing included.
C14_OrderIrrelevant ==
    [][\A first \in FetchesOf(fetches, InitOwner) :
          (PairSettles(InitOwner) /\ first.pc = "done" /\ settled'.owner = InitOwner)
             => View' = OtherOrder(first)]_vars

ErrorMessages == {LeaveError, StudentsError, UpdateError}

MessageOf(kind) == IF kind = "leave" THEN LeaveError ELSE StudentsError

\* C15: error is always null or one of the three fixed messages, never the
\* detail of the failure raised; and in the step in which the second of two
\* fetches started together completes, both having failed, error becomes the
\* message of that second fetch.
C15_ErrorSlot ==
    [][/\ error \in {NULL} \cup ErrorMessages
       /\ error' \in {NULL} \cup ErrorMessages
       /\ error' \notin HttpFailures
       /\ \A owner \in 0..MaxUpdates : \A first \in FetchesOf(fetches, owner) :
             (/\ PairSettles(owner)
              /\ first.pc = "done" /\ settled'.owner = owner
              /\ ~first.resp.ok /\ ~settled'.resp.ok)
             => /\ first.kind # settled'.kind
                /\ error' = MessageOf(settled'.kind)]_vars

\* Only the initial fetch has run; its student fetch failed first and its
\* leave fetch failed last: error is the leave-request message.
C15_Witness ==
    /\ initPc = "done" /\ Len(updates) = 0 /\ userCalls = 0
    /\ JustFailed("leave") /\ settled.owner = InitOwner
    /\ allStudents = <<>>
    /\ error = LeaveError

\* A consumer calls a fetch function in this step.
FetchCalled(kind) ==
    /\ userCalls' = userCalls + 1
    /\ CopiesIn(NewFetch(kind, UserOwner), fetches')
          = CopiesIn(NewFetch(kind, UserOwner), fetches) + 1

InitialFetchCalled == initPc = "idle" /\ initPc' = "joining"

\* C16: the step that starts fetchLeaveRequests, fetchAllStudents or
\* updateLeaveStatus (and the steps that start both fetches together) sets
\* error to null whatever it was, with the remote call it issued still
\* outstanding, and changes no slice: a slice a failed fetch emptied stays
\* empty while the start of a fetch of the other slice erases its error.
C16_StartClearsError ==
    [][/\ \A kind \in {"leave", "students"} : FetchCalled(kind) =>
             /\ error' = NULL
             /\ \E f \in BagToSet(fetches') :
                   f.owner = UserOwner /\ f.kind = kind /\ f.pc = "sent"
             /\ <<leaveRequests', statusCounts', allStudents'>>
                   = <<leaveRequests, statusCounts, allStudents>>
       /\ UpdateCalled =>
             /\ error' = NULL
             /\ updates'[Len(updates')].pc = "sent"
             /\ <<leaveRequests', statusCounts', allStudents'>>
                   = <<leaveRequests, statusCounts, allStudents>>
       /\ (InitialFetchCalled \/ \E k \in 1..MaxUpdates : UpdateSucceeds(k)) =>
             /\ error' = NULL
             /\ <<leaveRequests', statusCounts', allStudents'>>
                   = <<leaveRequests, statusCounts, allStudents>>]_vars

\* Only the initial fetch has run and its leave fetch failed (the remote
\* holds a request, none is held here); a consumer has then called
\* fetchAllStudents, which is still outstanding: error is null again and
\* leaveRequests still empty.
C16_Witness ==
    /\ initPc = "done" /\ Len(updates) = 0 /\ userCalls = 1
    /\ \E f \in BagToSet(fetches) :
          f.owner = UserOwner /\ f.kind = "students" /\ f.pc = "sent"
    /\ remoteLeave # <<>> /\ leaveRequests = <<>> /\ statusCounts = ZeroCounts
    /\ allStudents # <<>>
    /\ error = NULL

\* What a fetch call that has returned leaves in its slice.
OutcomeOf(f) == IF f.resp.ok THEN f.resp.data ELSE <<>>

\* C17: a fetch that is outstanding stays so until it completes itself: no
\* step, and no start of another fetch of the same slice, takes it away; and
\* the step in which a fetch completes leaves its own outcome in its slice
\* (and its count in statusCounts) whatever the fetches of the same slice
\* that were started or have completed before it left there, so a failure
\* that completes after a success empties the slice.
C17_LastCompletedWins ==
    [][/\ \A f \in BagToSet(fetches) :
             (f.pc = "sent" /\ CopiesIn(f, fetches') < CopiesIn(f, fetches)) =>
                /\ CopiesIn(f, fetches') = CopiesIn(f, fetches) - 1
                /\ settled'.pc = "done"
                /\ settled'.kind = f.kind /\ settled'.owner = f.owner
       /\ (settled'.pc = "done" /\ settled'.kind = "leave") =>
             /\ leaveRequests' = OutcomeOf(settled')
             /\ statusCounts' = calculateStatusCounts(OutcomeOf(settled'))
       /\ (settled'.pc = "done" /\ settled'.kind = "students") =>
             allStudents' = OutcomeOf(settled')
       /\ (settled'.pc = "done" /\ settled'.kind = "leave"
             /\ settled'.owner \in observed.rivals /\ ~settled'.resp.ok) =>
             /\ leaveRequests # <<>>
             /\ leaveRequests' = <<>>
             /\ statusCounts' = ZeroCounts]_vars

\* Two fetchLeaveRequests calls were outstanding together; one succeeded and
\* filled the slice, the other has now failed and emptied it.
C17_Witness ==
    /\ observed.emptied
    /\ JustFailed("leave")
    /\ leaveRequests = <<>>
    /\ statusCounts = ZeroCounts
    /\ remoteLeave # <<>>

\* A fetch call returns in this step.
FetchReturns(kind) == settled'.pc = "done" /\ settled'.kind = kind

\* The caller that awaits the fetch returning in this step runs its finally
\* in the same step.
CallerFinishes == \E owner \in 0..MaxUpdates : settled'.owner = owner /\ PairSettles(owner)

\* C18: the step that starts a fetchAllStudents and the step in which one
\* returns, having succeeded or failed, leave leaveRequests and statusCounts
\* as they are; those of a fetchLeaveRequests leave allStudents as it is;
\* none of them changes loading (what changes it in a step in which a fetch
\* returns is the finally of the caller awaiting it, not the fetch); and
\* both write error: null at the start, their own message on failure.
C18_DisjointSlices ==
    [][/\ (FetchCalled("students") \/ FetchReturns("students")) =>
             /\ leaveRequests' = leaveRequests
             /\ statusCounts' = statusCounts
       /\ (FetchCalled("leave") \/ FetchReturns("leave")) =>
             allStudents' = allStudents
       /\ \A kind \in {"leave", "students"} :
             /\ FetchCalled(kind) => loading' = loading /\ error' = NULL
             /\ FetchReturns(kind) =>
                   /\ fetchSettle(View, kind, serviceResult(settled'.resp)).loading = loading
                   /\ ~CallerFinishes => loading' = loading
                   /\ CallerFinishes => loading' = FALSE
                   /\ ~settled'.resp.ok => error' = MessageOf(kind)
                   /\ settled'.resp.ok => error' = error]_vars

\* A consumer's fetchAllStudents has failed while an update was in progress:
\* the leave requests and their counts are still held and loading still true.
C18_Witness ==
    /\ JustFailed("students") /\ settled.owner = UserOwner
    /\ allStudents = <<>>
    /\ leaveRequests # <<>> /\ statusCounts.total = 1
    /\ loading = TRUE
    /\ error = StudentsError

\* The updateLeaveStatus call k is in progress (has returned).
UpdateInProgress(k) == k <= Len(updates) /\ updates[k].pc \in {"sent", "joining"}

UpdateFinished(k) == k <= Len(updates) /\ updates[k].pc = "done"

\* C19: every remote call settling in the end, the initial fetch, once
\* started, finishes, and so does every updateLeaveStatus call; whenever the
\* initial fetch has finished and no call is in flight loading is false; and
\* loading ends false for good.
C19_NothingStuck ==
    /\ [](Idle /\ initPc = "done" => loading = FALSE)
    /\ (initPc = "joining") ~> (initPc = "done")
    /\ \A k \in 1..MaxUpdates : UpdateInProgress(k) ~> UpdateFinished(k)
    /\ <>[](loading = FALSE)

\* Every call has been made and has finished, the last one after a failure.
C19_Witness ==
    /\ Idle /\ initPc = "done"
    /\ Len(updates) = MaxLiveUpdates /\ userCalls = MaxUserFetches
    /\ error # NULL
    /\ loading = FALSE

=============================================================================
